---- MODULE Spec2Model ----
(***************************************************************************)
(* The MCP command-line chat client of src/src/index.ts: one MCPClient     *)
(* (tool registry + backend connection), the line/close/SIGINT handlers    *)
(* of main(), and processQuery, the two-round tool-call orchestration.     *)
(*                                                                         *)
(* JavaScript runs one handler at a time and a handler gives up control    *)
(* only at an await, so every action below is the code between two awaits  *)
(* of one handler: the arrival of an event (a line, end of input, SIGINT)  *)
(* or the settling of the promise a handler awaits (a chat completion, a   *)
(* callTool, a transport close), followed by everything the handler does   *)
(* up to its next await.  A promise that settles inside the process (the   *)
(* one processQuery returns to the line handler) is continued in the same  *)
(* action.  The remote systems are the environment: each answer they give  *)
(* is drawn from a small set.                                              *)
(***************************************************************************)
EXTENDS Integers, Sequences, FiniteSets, TLC

\* Bounds of the model.
MaxLines == 2      \* input lines delivered in one session
MaxCalls == 2      \* tool calls the model may emit in one response
MaxSignals == 1    \* SIGINT deliveries in one session

\* JavaScript null / undefined.
Null == "<null>"

-----------------------------------------------------------------------------
(* Strings the code inspects character by character are sequences of       *)
(* one-character strings.                                                  *)

SystemPrompt == "weather assistant"

Lower(c) ==
  CASE c = "Q" -> "q" [] c = "U" -> "u" [] c = "I" -> "i" [] c = "T" -> "t"
    [] c = "H" -> "h" [] OTHER -> c

toLowerCase(s) == [k \in 1..Len(s) |-> Lower(s[k])]

IsWhite(c) == c \in {" ", "\t"}

RECURSIVE trimStart(_)
trimStart(s) ==
  IF s # <<>> /\ IsWhite(Head(s)) THEN trimStart(Tail(s)) ELSE s

RECURSIVE trimEnd(_)
trimEnd(s) ==
  IF s # <<>> /\ IsWhite(s[Len(s)]) THEN trimEnd(SubSeq(s, 1, Len(s) - 1)) ELSE s

trim(s) == trimEnd(trimStart(s))

QuitWord == <<"q", "u", "i", "t">>

\* The lines the user may type.
InputLines == { <<"h", "i", " ">>, <<"y", "o">>, <<" ", "Q", "u", "I", "T">> }

\* What the user may type as the n-th line: quit, or the n-th question.
Typed(n) ==
  { input \in InputLines :
      \/ toLowerCase(trim(input)) = QuitWord
      \/ input = (IF n % 2 = 1 THEN <<"h", "i", " ">> ELSE <<"y", "o">>) }

-----------------------------------------------------------------------------
(* JSON texts are sequences of tokens; JSON.parse and JSON.stringify work  *)
(* on them.                                                                *)

P(v) == [k |-> "punct", v |-> v]
S(v) == [k |-> "string", v |-> v]
N(v) == [k |-> "number", v |-> v]

IsValueToken(t) == t.k \in {"string", "number"}

\* The members "key": value (, "key": value)* } of an object, from position p.
RECURSIVE ParseMembers(_, _, _)
ParseMembers(toks, p, acc) ==
  IF p + 3 > Len(toks) THEN [ok |-> FALSE, value |-> <<>>]
  ELSE IF ~(toks[p].k = "string" /\ toks[p + 1] = P(":") /\ IsValueToken(toks[p + 2]))
  THEN [ok |-> FALSE, value |-> <<>>]
  ELSE LET member == [key |-> toks[p].v, type |-> toks[p + 2].k, value |-> toks[p + 2].v]
           kept == SelectSeq(acc, LAMBDA m : m.key # member.key)
           acc2 == Append(kept, member)
       IN  IF toks[p + 3] = P("}")
           THEN [ok |-> p + 3 = Len(toks), value |-> IF p + 3 = Len(toks) THEN acc2 ELSE <<>>]
           ELSE IF toks[p + 3] = P(",")
           THEN ParseMembers(toks, p + 4, acc2)
           ELSE [ok |-> FALSE, value |-> <<>>]

\* JSON.parse of an object text: ok = FALSE stands for the SyntaxError it throws.
JSONParse(toks) ==
  IF Len(toks) < 2 \/ toks[1] # P("{") THEN [ok |-> FALSE, value |-> <<>>]
  ELSE IF Len(toks) = 2
  THEN [ok |-> toks[2] = P("}"), value |-> <<>>]
  ELSE ParseMembers(toks, 2, <<>>)

RECURSIVE StringifyBlocks(_)
StringifyBlocks(blocks) ==
  IF blocks = <<>> THEN <<>>
  ELSE LET b == Head(blocks)
           one == << P("{"), S("type"), P(":"), S(b.type), P(","),
                     S("text"), P(":"), S(b.text), P("}") >>
       IN  IF Len(blocks) = 1 THEN one
           ELSE one \o << P(",") >> \o StringifyBlocks(Tail(blocks))

\* JSON.stringify of a result's content blocks.
JSONStringify(blocks) == << P("[") >> \o StringifyBlocks(blocks) \o << P("]") >>

-----------------------------------------------------------------------------
(* What the remote systems may answer.                                     *)

\* The tool catalogues the backend may list at connect time.
ServerToolLists ==
  { << [name |-> "get_alerts", description |-> Null],
       [name |-> "get_forecast", description |-> "Get the forecast"] >> }

LatLonSchema == "object{latitude:number,longitude:number}"

\* The coordinates the model asks about in the k-th call of a response.
Latitude(k) == <<"37.7", "40.7", "51.5", "48.8", "35.6">>[k]

ArgsGood(k) ==
  << P("{"), S("latitude"), P(":"), N(Latitude(k)), P(","),
     S("longitude"), P(":"), N("-122.4"), P(","),
     S("units"), P(":"), S("metric"), P("}") >>

\* A truncated arguments text.
ArgsBad == << P("{"), S("latitude"), P(":") >>

CallKinds == {"good", "bad"}

CallId(k) == <<"call_1", "call_2", "call_3", "call_4", "call_5">>[k]

\* The k-th tool call of a response, with arguments that parse or do not.
ToolCall(k, kind) ==
  [id |-> CallId(k), type |-> "function",
   function |-> [name |-> IF k % 2 = 1 THEN "get_forecast" ELSE "get_alerts",
                 arguments |-> IF kind = "good" THEN ArgsGood(k) ELSE ArgsBad]]

\* The tool_calls arrays of a response: 0..MaxCalls calls with distinct ids,
\* at most one of them with arguments that do not parse (at any position).
Batches ==
  UNION { { [k \in 1..n |-> ToolCall(k, f[k])] :
              f \in { g \in [1..n -> CallKinds] :
                        Cardinality({ k \in 1..n : g[k] = "bad" }) <= 1 } }
          : n \in 0..MaxCalls }

Contents == { Null, "It is sunny." }

\* The message of a chat completion: tool_calls is absent, null or an array.
Responses ==
  { [content |-> c, kind |-> k, tool_calls |-> <<>>] : c \in Contents, k \in {"absent", "null"} }
  \cup { [content |-> Null, kind |-> "array", tool_calls |-> b] : b \in Batches }

\* The second response may itself ask for a tool call.
FinalResponses ==
  { [content |-> c, kind |-> "absent", tool_calls |-> <<>>] : c \in Contents }
  \cup { [content |-> c, kind |-> "array",
          tool_calls |-> << ToolCall(MaxCalls + 1, "good") >>]
         : c \in Contents }

NoMessage == [content |-> Null, kind |-> "none", tool_calls |-> <<>>]

\* The weather at the k-th coordinates.
Weather(k) == <<"Sunny, 22C", "Rain, 12C", "Fog, 9C", "Wind, 15C", "Snow, -1C">>[k]

ToolResult(k) == [content |-> << [type |-> "text", text |-> Weather(k)] >>]

\* What callTool may resolve with.
ToolResults == { ToolResult(k) : k \in 1..(MaxCalls + 1) }

\* The backend answers the request it got: the weather at its coordinates.
Answers(request) ==
  { ToolResult(k) : k \in { j \in 1..(MaxCalls + 1) :
                              \E a \in 1..Len(request.arguments) :
                                /\ request.arguments[a].key = "latitude"
                                /\ request.arguments[a].value = Latitude(j) } }

-----------------------------------------------------------------------------
(* The state of the session.                                               *)

VARIABLES
  phase,       \* "starting" (before connectToServer returns), "running", "exited"
  exitCode,    \* the code process.exit was called with, Null while running
  client,      \* this.client: Null until connectToServer creates it
  tools,       \* this.tools
  transport,   \* the backend transport: "none", "open", "closing", "closed"
  closeCalls,  \* how many times transport.close() has been called
  rlClosed,    \* the readline interface has been closed
  lines,       \* line events delivered so far
  signals,     \* SIGINTs delivered so far
  pending,     \* per handler kind, how many are awaiting client.cleanup()
  queries,     \* the processQuery executions in flight
  last         \* the processQuery execution that settled last, as it settled

vars ==
  << phase, exitCode, client, tools, transport, closeCalls, rlClosed, lines,
     signals, pending, queries, last >>

-----------------------------------------------------------------------------
(* processQuery, as functions on the record of one execution.              *)

\* JavaScript truthiness of message.tool_calls: every array is truthy.
Truthy(message) == message.kind = "array"

\* Faulty variant of OrEmpty: the content is returned as it is, null included.
OrEmptyKeep(content) == content

\* value || ''
OrEmpty(content) == IF content = Null THEN "" ELSE content

SystemMessage ==
  [role |-> "system", content |-> SystemPrompt, tool_calls |-> <<>>, tool_call_id |-> Null]

UserMessage(query) ==
  [role |-> "user", content |-> query, tool_calls |-> <<>>, tool_call_id |-> Null]

AssistantMessage(toolCalls) ==
  [role |-> "assistant", content |-> Null, tool_calls |-> toolCalls, tool_call_id |-> Null]

ToolMessage(content, id) ==
  [role |-> "tool", content |-> content, tool_calls |-> <<>>, tool_call_id |-> id]

\* this.tools, from the catalogue the backend listed.
ConvertTools(listed) ==
  [k \in 1..Len(listed) |->
     [type |-> "function",
      function |-> [name |-> listed[k].name,
                    description |-> OrEmpty(listed[k].description),
                    parameters |-> LatLonSchema]]]

\* Faulty variant of FirstRequest: the tools are declared in reverse order.
FirstRequestReversed(messages, registry) ==
  [model |-> "deepseek-ai/DeepSeek-V2.5",
   messages |-> messages,
   declaresTools |-> TRUE,
   tools |-> [k \in 1..Len(registry) |->
                [type |-> "function",
                 function |-> [name |-> registry[Len(registry) + 1 - k].function.name,
                               description |-> registry[Len(registry) + 1 - k].function.description,
                               parameters |-> LatLonSchema,
                               strict |-> FALSE]]]]

\* requestParams of the first round.
FirstRequest(messages, registry) ==
  [model |-> "deepseek-ai/DeepSeek-V2.5",
   messages |-> messages,
   declaresTools |-> TRUE,
   tools |-> [k \in 1..Len(registry) |->
                [type |-> "function",
                 function |-> [name |-> registry[k].function.name,
                               description |-> registry[k].function.description,
                               parameters |-> LatLonSchema,
                               strict |-> FALSE]]]]

\* Faulty variant of SecondRequest: the second round declares tools again.
SecondRequestWithTools(messages) ==
  [model |-> "OPENAI_MODEL || gpt-4",
   messages |-> messages,
   declaresTools |-> TRUE,
   tools |-> << [type |-> "function",
                 function |-> [name |-> "get_forecast", description |-> "",
                               parameters |-> LatLonSchema, strict |-> FALSE]] >>]

\* The request of the second round.
SecondRequest(messages) ==
  [model |-> "OPENAI_MODEL || gpt-4",
   messages |-> messages,
   declaresTools |-> FALSE,
   tools |-> <<>>]

\* Faulty variant of Throw: the catch logs the error and does not rethrow, so
\* the promise resolves.
ThrowSwallowed(q, error) == [q EXCEPT !.pc = "resolved", !.error = error]

\* The catch of processQuery: log and rethrow, so the promise rejects.
Throw(q, error) == [q EXCEPT !.pc = "rejected", !.error = error]

\* return value: the promise resolves.
Return(q, value) == [q EXCEPT !.pc = "resolved", !.value = value]

\* Faulty variant of StartQuery: messages is a field of the client that keeps
\* the conversation, so a query goes on from the transcript of the last one.
StartQueryHistory(query, registry) ==
  LET messages == IF last.pc = "none" THEN << SystemMessage, UserMessage(query) >>
                  ELSE Append(last.messages, UserMessage(query))
  IN  [query |-> query, pc |-> "await1",
       messages |-> messages,
       sent |-> << FirstRequest(messages, registry) >>,
       assistantMessage |-> NoMessage,
       i |-> 0, calls |-> <<>>, results |-> <<>>,
       finalMessage |-> NoMessage, value |-> Null, error |-> Null]

\* The start of processQuery, up to the first await.
StartQuery(query, registry) ==
  LET messages == << SystemMessage, UserMessage(query) >>
  IN  [query |-> query, pc |-> "await1",
       messages |-> messages,
       sent |-> << FirstRequest(messages, registry) >>,
       assistantMessage |-> NoMessage,
       i |-> 0, calls |-> <<>>, results |-> <<>>,
       finalMessage |-> NoMessage, value |-> Null, error |-> Null]

\* After the loop: the second chat completion is requested.
SecondRound(q) ==
  [q EXCEPT !.pc = "await2", !.sent = Append(@, SecondRequest(q.messages))]

\* Faulty variant of ToolLoop: a call whose arguments do not parse is skipped
\* and the loop goes on with the next call.
RECURSIVE ToolLoopSkipBad(_)
ToolLoopSkipBad(q) ==
  IF q.i > Len(q.assistantMessage.tool_calls) THEN SecondRound(q)
  ELSE LET toolCall == q.assistantMessage.tool_calls[q.i]
           toolArgs == JSONParse(toolCall.function.arguments)
       IN  IF ~toolArgs.ok THEN ToolLoopSkipBad([q EXCEPT !.i = @ + 1])
           ELSE [q EXCEPT !.pc = "awaitTool",
                          !.calls = Append(@, [name |-> toolCall.function.name,
                                               arguments |-> toolArgs.value])]

\* Faulty variant of ToolLoop: the remaining calls are all issued at once
\* (a Promise.all over the batch) instead of one per iteration.
ToolLoopAll(q) ==
  LET batch == q.assistantMessage.tool_calls
      rest == q.i..Len(batch)
  IN  IF rest = {} THEN SecondRound(q)
      ELSE IF \E k \in rest : ~JSONParse(batch[k].function.arguments).ok
      THEN Throw(q, "SyntaxError")
      ELSE [q EXCEPT !.pc = "awaitTool",
                     !.calls = @ \o [k \in 1..(Len(batch) - q.i + 1) |->
                                       [name |-> batch[q.i + k - 1].function.name,
                                        arguments |-> JSONParse(batch[q.i + k - 1].function.arguments).value]]]

\* Faulty variant of ToolLoop: the parsed argument values are passed on as
\* strings.
ToolLoopCoerce(q) ==
  IF q.i > Len(q.assistantMessage.tool_calls) THEN SecondRound(q)
  ELSE LET toolCall == q.assistantMessage.tool_calls[q.i]
           toolArgs == JSONParse(toolCall.function.arguments)
       IN  IF ~toolArgs.ok THEN Throw(q, "SyntaxError")
           ELSE [q EXCEPT !.pc = "awaitTool",
                          !.calls = Append(@, [name |-> toolCall.function.name,
                                               arguments |-> [a \in 1..Len(toolArgs.value) |->
                                                                [toolArgs.value[a] EXCEPT !.type = "string"]]])]

\* The loop body for call q.i up to its await: parse the arguments, call the tool.
ToolLoop(q) ==
  IF q.i > Len(q.assistantMessage.tool_calls) THEN SecondRound(q)
  ELSE LET toolCall == q.assistantMessage.tool_calls[q.i]
           toolArgs == JSONParse(toolCall.function.arguments)
       IN  IF ~toolArgs.ok THEN Throw(q, "SyntaxError")
           ELSE [q EXCEPT !.pc = "awaitTool",
                          !.calls = Append(@, [name |-> toolCall.function.name,
                                               arguments |-> toolArgs.value])]

\* The first completion resolved.
OnCompletion(q, message) ==
  LET q1 == [q EXCEPT !.assistantMessage = message]
  IN  IF Truthy(message) THEN ToolLoop([q1 EXCEPT !.i = 1])
      ELSE Return(q1, OrEmpty(message.content))

\* Faulty variant of PushPair: the assistant message carries the whole batch.
PushPairBatch(q, result) ==
  LET toolCall == q.assistantMessage.tool_calls[q.i]
  IN  q.messages \o << AssistantMessage(q.assistantMessage.tool_calls),
                       ToolMessage(JSONStringify(result.content), toolCall.id) >>

\* Faulty variant of PushPair: messages is one array shared by the executions
\* in flight, so the pair lands on the longest transcript among them.
PushPairShared(q, result) ==
  LET toolCall == q.assistantMessage.tool_calls[q.i]
      shared == CHOOSE o \in DOMAIN queries :
                  \A x \in DOMAIN queries : Len(x.messages) <= Len(o.messages)
  IN  shared.messages \o << AssistantMessage(<< toolCall >>),
                            ToolMessage(JSONStringify(result.content), toolCall.id) >>

\* The two messages pushed for the call at hand.
PushPair(q, result) ==
  LET toolCall == q.assistantMessage.tool_calls[q.i]
  IN  q.messages \o << AssistantMessage(<< toolCall >>),
                       ToolMessage(JSONStringify(result.content), toolCall.id) >>

\* callTool resolved: record the pair and go on with the next call.
OnToolResult(q, result) ==
  ToolLoop([q EXCEPT !.results = Append(@, result),
                     !.messages = PushPair(q, result),
                     !.i = @ + 1])

\* Faulty variant of OnToolError: the failure becomes the call's tool result
\* and the loop goes on.
OnToolErrorContained(q) ==
  LET failure == [content |-> << [type |-> "text", text |-> "Error: tool failed"] >>]
  IN  ToolLoop([q EXCEPT !.results = Append(@, failure),
                         !.messages = PushPair(q, failure),
                         !.i = @ + 1])

\* callTool rejected.
OnToolError(q) == Throw(q, "ToolError")

\* Faulty variant of OnChatError: the failed request is sent once more before
\* the error is thrown.
OnChatErrorRetry(q) ==
  IF Len(q.sent) < 3 THEN [q EXCEPT !.sent = Append(@, @[Len(@)])]
  ELSE Throw(q, "ChatAPIError")

\* A chat completion rejected (either round).
OnChatError(q) == Throw(q, "ChatAPIError")

\* Faulty variant of OnFinalResponse: tool calls of the second response are
\* dispatched like those of the first.
OnFinalResponseLoop(q, message) ==
  IF Truthy(message)
  THEN ToolLoop([q EXCEPT !.finalMessage = message, !.assistantMessage = message, !.i = 1])
  ELSE Return([q EXCEPT !.finalMessage = message], OrEmpty(message.content))

\* Faulty variant of OnFinalResponse: as long as the response asks for tool
\* calls, the second request is sent again.
OnFinalResponseAgain(q, message) ==
  IF Truthy(message) THEN [q EXCEPT !.finalMessage = message]
  ELSE Return([q EXCEPT !.finalMessage = message], OrEmpty(message.content))

\* The second completion resolved.
OnFinalResponse(q, message) ==
  Return([q EXCEPT !.finalMessage = message], OrEmpty(message.content))

-----------------------------------------------------------------------------
(* The session: main() and its handlers.                                   *)

Origins == {"quit", "close", "SIGINT"}

NoQuery ==
  [query |-> <<>>, pc |-> "none", messages |-> <<>>, sent |-> <<>>,
   assistantMessage |-> NoMessage, i |-> 0, calls |-> <<>>, results |-> <<>>,
   finalMessage |-> NoMessage, value |-> Null, error |-> Null]

Init ==
  /\ phase = "starting"
  /\ exitCode = Null
  /\ client = Null
  /\ tools = <<>>
  /\ transport = "none"
  /\ closeCalls = 0
  /\ rlClosed = FALSE
  /\ lines = 0
  /\ signals = 0
  /\ pending = [o \in Origins |-> 0]
  /\ queries = << >>
  /\ last = NoQuery

Settled(q) == q.pc \in {"resolved", "rejected"}

\* queries is a bag: executions in the same state are counted, not told apart.
InFlight == DOMAIN queries

NumInFlight ==
  LET RECURSIVE Sum(_)
      Sum(Q) == IF Q = {} THEN 0
                ELSE LET q == CHOOSE x \in Q : TRUE IN queries[q] + Sum(Q \ {q})
  IN  Sum(InFlight)

Put(bag, q) ==
  IF q \in DOMAIN bag THEN [bag EXCEPT ![q] = @ + 1]
  ELSE [r \in DOMAIN bag \cup {q} |-> IF r = q THEN 1 ELSE bag[r]]

Take(bag, q) ==
  IF bag[q] > 1 THEN [bag EXCEPT ![q] = @ - 1]
  ELSE [r \in DOMAIN bag \ {q} |-> bag[r]]

\* process.exit(code)
Exit(code) == phase' = "exited" /\ exitCode' = code

Running == phase' = phase /\ exitCode' = exitCode

\* Faulty variant of Resume: the line handler has no try/catch, so a rejected
\* processQuery is an unhandled rejection and ends the process.
ResumeNoCatch(old, q) ==
  LET rest == IF old = NoQuery THEN queries ELSE Take(queries, old)
  IN  /\ queries' = IF Settled(q) THEN rest ELSE Put(rest, q)
      /\ last' = IF Settled(q) THEN q ELSE last
      /\ IF q.pc = "rejected" THEN Exit(1) ELSE Running

\* The line handler around processQuery: the execution (old, or NoQuery when
\* it starts) goes on to its next await as q, or it settled as q and the
\* handler logs the answer or the caught error.
Resume(old, q) ==
  LET rest == IF old = NoQuery THEN queries ELSE Take(queries, old)
  IN  /\ queries' = IF Settled(q) THEN rest ELSE Put(rest, q)
      /\ last' = IF Settled(q) THEN q ELSE last
      /\ Running

\* Faulty variant of BeginCleanup: cleanup() is called without await, so the
\* handler goes straight on to process.exit(0).
BeginCleanupNoAwait(origin) ==
  /\ transport' = IF transport = "open" THEN "closing" ELSE transport
  /\ closeCalls' = closeCalls + 1
  /\ pending' = pending
  /\ Exit(0)

\* client.cleanup() up to its await: transport.close() is called.
BeginCleanup(origin) ==
  IF client = Null
  THEN /\ UNCHANGED << transport, closeCalls, pending >>
       /\ Exit(0)
  ELSE /\ transport' = IF transport = "open" THEN "closing" ELSE transport
       /\ closeCalls' = closeCalls + 1
       /\ pending' = [pending EXCEPT ![origin] = @ + 1]
       /\ Running

\* connectToServer returned: the registry is filled and the handlers are set.
Connect(listed) ==
  /\ phase = "starting"
  /\ client' = "client"
  /\ tools' = ConvertTools(listed)
  /\ transport' = "open"
  /\ phase' = "running"
  /\ exitCode' = exitCode
  /\ UNCHANGED << closeCalls, rlClosed, lines, signals, pending, queries, last >>

\* connectToServer threw: main's catch exits with 1.
ConnectFails ==
  /\ phase = "starting"
  /\ client' \in {Null, "client"}
  /\ Exit(1)
  /\ UNCHANGED << tools, transport, closeCalls, rlClosed, lines, signals, pending, queries, last >>

\* rl.on('line'): 'quit' starts the cleanup, any other line starts processQuery.
Line(input) ==
  /\ phase = "running" /\ ~rlClosed /\ lines < MaxLines
  /\ lines' = lines + 1
  /\ LET query == trim(input)
     IN  IF toLowerCase(query) = QuitWord
         THEN /\ BeginCleanup("quit")
              /\ UNCHANGED << queries, last >>
         ELSE /\ Resume(NoQuery, StartQuery(query, tools))
              /\ UNCHANGED << transport, closeCalls, pending >>
  /\ UNCHANGED << client, tools, rlClosed, signals >>

QueryStep(old, q) ==
  /\ Resume(old, q)
  /\ UNCHANGED << client, tools, transport, closeCalls, rlClosed, lines, signals, pending >>

\* The first chat completion resolves.
Chat1Returns(q, message) ==
  /\ phase = "running" /\ q \in InFlight /\ q.pc = "await1"
  /\ QueryStep(q, OnCompletion(q, message))

\* A chat completion rejects.
ChatFails(q) ==
  /\ phase = "running" /\ q \in InFlight /\ q.pc \in {"await1", "await2"}
  /\ QueryStep(q, OnChatError(q))

\* callTool resolves.
ToolReturns(q, result) ==
  /\ phase = "running" /\ q \in InFlight /\ q.pc = "awaitTool"
  /\ result \in Answers(q.calls[Len(q.calls)])
  /\ QueryStep(q, OnToolResult(q, result))

\* callTool rejects.
ToolFails(q) ==
  /\ phase = "running" /\ q \in InFlight /\ q.pc = "awaitTool"
  /\ QueryStep(q, OnToolError(q))

\* The second chat completion resolves.
Chat2Returns(q, message) ==
  /\ phase = "running" /\ q \in InFlight /\ q.pc = "await2"
  /\ QueryStep(q, OnFinalResponse(q, message))

\* rl.on('close'): end of input.
InputClose ==
  /\ phase = "running" /\ ~rlClosed
  /\ rlClosed' = TRUE
  /\ BeginCleanup("close")
  /\ UNCHANGED << client, tools, lines, signals, queries, last >>

\* process.on('SIGINT')
Sigint ==
  /\ phase = "running" /\ signals < MaxSignals
  /\ signals' = signals + 1
  /\ BeginCleanup("SIGINT")
  /\ UNCHANGED << client, tools, rlClosed, lines, queries, last >>

\* The close() a handler awaits resolves and the handler runs to process.exit:
\* the quit branch first closes readline, whose 'close' handler starts another
\* cleanup (which calls close() again unless the SDK dropped the transport).
CleanupResolves(origin) ==
  /\ phase = "running" /\ pending[origin] > 0
  /\ transport' = "closed"
  /\ IF origin = "quit" /\ ~rlClosed
     THEN /\ rlClosed' = TRUE
          /\ pending' = [pending EXCEPT ![origin] = @ - 1, !["close"] = @ + 1]
          /\ closeCalls' \in {closeCalls, closeCalls + 1}
     ELSE /\ pending' = [pending EXCEPT ![origin] = @ - 1]
          /\ UNCHANGED << rlClosed, closeCalls >>
  /\ Exit(0)
  /\ UNCHANGED << client, tools, lines, signals, queries, last >>

Next ==
  \/ \E listed \in ServerToolLists : Connect(listed)
  \/ ConnectFails
  \/ \E input \in Typed(lines + 1) : Line(input)
  \/ \E q \in InFlight, message \in Responses : Chat1Returns(q, message)
  \/ \E q \in InFlight : ChatFails(q)
  \/ \E q \in InFlight, result \in ToolResults : ToolReturns(q, result)
  \/ \E q \in InFlight : ToolFails(q)
  \/ \E q \in InFlight, message \in FinalResponses : Chat2Returns(q, message)
  \/ InputClose
  \/ Sigint
  \/ \E origin \in Origins : CleanupResolves(origin)

Spec == Init /\ [][Next]_vars

\* A remote call some execution awaits returns or fails.
RemoteAnswers ==
  \E q \in InFlight :
    \/ \E message \in Responses : Chat1Returns(q, message)
    \/ ChatFails(q)
    \/ \E result \in ToolResults : ToolReturns(q, result)
    \/ ToolFails(q)
    \/ \E message \in FinalResponses : Chat2Returns(q, message)

\* The session with remote calls that do not hang: while the process runs,
\* an awaited chat completion or callTool eventually settles.
LiveSpec == Init /\ [][Next]_vars /\ WF_vars(RemoteAnswers)

-----------------------------------------------------------------------------
(* Properties.                                                             *)

\* Every execution the state shows: those in flight and the last one settled.
Executions == InFlight \cup {last}

\* The tool calls of the first response of execution q.
Emitted(q) == q.assistantMessage.tool_calls

\* The request callTool gets for a tool call.
RequestFor(toolCall) ==
  [name |-> toolCall.function.name,
   arguments |-> JSONParse(toolCall.function.arguments).value]

\* C1: when the first response carries N >= 1 tool calls and all dispatches
\* succeed, the transcript of the second chat request is [system, user]
\* followed by N (assistant, tool) pairs in emitted order; the i-th assistant
\* message carries exactly the i-th call, the i-th tool message has the i-th
\* call's id, and every emitted id has exactly one tool message.
C1_TranscriptPairing ==
  \A q \in Executions :
    (Len(q.sent) >= 2 /\ Len(Emitted(q)) >= 1) =>
      LET m == q.sent[2].messages
          n == Len(Emitted(q))
      IN  /\ Len(m) = 2 + 2 * n
          /\ m[1] = SystemMessage
          /\ m[2] = UserMessage(q.query)
          /\ \A k \in 1..n :
               /\ m[2 * k + 1].role = "assistant"
               /\ m[2 * k + 1].tool_calls = << Emitted(q)[k] >>
               /\ m[2 * k + 2].role = "tool"
               /\ m[2 * k + 2].tool_call_id = Emitted(q)[k].id
               /\ Cardinality({ j \in 3..Len(m) :
                                  m[j].role = "tool" /\ m[j].tool_call_id = Emitted(q)[k].id }) = 1

\* A second request has been sent after two tool calls were dispatched.
C1_Witness ==
  \E q \in InFlight : q.pc = "await2" /\ Len(Emitted(q)) = 2 /\ Len(q.results) = 2

\* C2: within one query the tool calls are dispatched one at a time in
\* emitted order: at most one callTool is outstanding, the k-th callTool is
\* the request for the k-th emitted call, and when a callTool is issued the
\* pairs of all earlier calls are already in the transcript.
C2_SequentialDispatch ==
  \A q \in Executions :
    /\ Len(q.calls) <= Len(q.results) + 1
    /\ Len(q.calls) <= Len(Emitted(q))
    /\ \A k \in 1..Len(q.calls) : q.calls[k] = RequestFor(Emitted(q)[k])
    /\ Len(q.calls) >= 1 => Len(q.messages) >= 2 + 2 * (Len(q.calls) - 1)
    /\ q.pc = "awaitTool" => Len(q.calls) = Len(q.results) + 1

\* The second callTool of a batch is outstanding, the first pair is appended.
C2_Witness ==
  \E q \in InFlight :
    q.pc = "awaitTool" /\ Len(q.calls) = 2 /\ Len(q.results) = 1 /\ Len(q.messages) = 4

\* The first response of q carries no tool-call requests.
NoToolCalls(q) ==
  q.assistantMessage.kind \in {"absent", "null", "array"} /\ Len(Emitted(q)) = 0

\* C3: when the first response carries no tool calls (tool_calls absent, null
\* or an empty list), processQuery sends exactly one chat request, invokes no
\* tool, never issues the second round and returns the first response's text.
C3_NoToolCallsOneRound ==
  \A q \in Executions :
    NoToolCalls(q) =>
      /\ Len(q.sent) = 1
      /\ q.calls = <<>>
      /\ q.pc = "resolved"
      /\ q.value = OrEmpty(q.assistantMessage.content)

\* C4: at most one query is in flight at any time.
C4_OneQueryInFlight == NumInFlight <= 1

\* The state of an execution that its caller and the chat API can observe.
Outcome(q) ==
  [pc |-> q.pc, messages |-> q.messages, rounds |-> Len(q.sent),
   results |-> q.results, value |-> q.value]

\* The (assistant, tool) pairs of the first n calls of q with their results.
RECURSIVE Pairs(_, _)
Pairs(q, n) ==
  IF n = 0 THEN <<>>
  ELSE Pairs(q, n - 1) \o
       << AssistantMessage(<< Emitted(q)[n] >>),
          ToolMessage(JSONStringify(q.results[n].content), Emitted(q)[n].id) >>

\* The outcome of an execution aborted at its k-th tool call.
AbortedAt(q, k) ==
  [pc |-> "rejected",
   messages |-> << SystemMessage, UserMessage(q.query) >> \o Pairs(q, k - 1),
   rounds |-> 1,
   results |-> SubSeq(q.results, 1, k - 1),
   value |-> Null]

\* C5 as stated: when callTool fails for a call, the query goes on: the
\* call's pair is appended (with an error-indicating result) and the execution
\* waits for the next callTool or for the second chat round.
C5_FailureContained ==
  [][\A q \in InFlight :
       ToolFails(q) =>
         \E r \in DOMAIN queries' :
           /\ r.pc \in {"awaitTool", "await2"}
           /\ Len(r.messages) = Len(q.messages) + 2
           /\ r.messages[Len(r.messages)].tool_call_id = Emitted(q)[q.i].id]_vars

\* C5 amended: when callTool fails for the k-th call, the query is aborted:
\* no pair is appended for that call, no later call is dispatched, no second
\* chat request is sent, and processQuery rejects with that error.
C5_ToolFailureAborts ==
  [][\A q \in InFlight :
       ToolFails(q) =>
         /\ last'.pc = "rejected" /\ last'.error = "ToolError"
         /\ last'.messages = q.messages
         /\ Len(last'.messages) = 2 + 2 * (q.i - 1)
         /\ last'.calls = q.calls /\ Len(q.calls) = q.i
         /\ last'.sent = q.sent /\ Len(q.sent) = 1
         /\ NumInFlight' = NumInFlight - 1]_vars

\* callTool failed for the second call of a batch, after the first succeeded.
C5_Witness ==
  last.error = "ToolError" /\ last.i = 2 /\ Len(Emitted(last)) = 2

\* The calls of q whose arguments do not parse.
Unparseable(q) ==
  { k \in 1..Len(Emitted(q)) : ~JSONParse(Emitted(q)[k].function.arguments).ok }

\* C6: a tool call whose arguments cannot be parsed is handled like a failed
\* callTool for that call: callTool is not invoked for it, and the outcome
\* (transcript, later calls, second round, what the caller receives) is the
\* outcome of an execution aborted at that call, as it is when callTool fails.
C6_MalformedLikeToolFailure ==
  \A q \in Executions :
    /\ \A k \in Unparseable(q) :
         /\ q.i <= k
         /\ Len(q.calls) < k
         /\ q.i = k => (Outcome(q) = AbortedAt(q, k) /\ q.error = "SyntaxError")
    /\ q.error = "ToolError" =>
         (Outcome(q) = AbortedAt(q, q.i) /\ Len(q.calls) = q.i)

\* The arguments of the second call of a batch did not parse.
C6_Witness ==
  /\ last.error = "SyntaxError" /\ last.i = 2
  /\ Len(last.calls) = 1 /\ Len(last.results) = 1

\* C7: one processQuery sends at most two chat requests; the second response
\* ends the query with its text content, and its tool calls are never
\* dispatched.
C7_AtMostTwoRounds ==
  \A q \in Executions :
    /\ Len(q.sent) <= 2
    /\ q.finalMessage # NoMessage =>
         /\ q.pc = "resolved"
         /\ q.value = OrEmpty(q.finalMessage.content)
         /\ Len(q.sent) = 2
         /\ Len(q.calls) = Len(q.results)
         /\ \A k \in 1..Len(q.finalMessage.tool_calls), j \in 1..Len(q.calls) :
              q.calls[j] # RequestFor(q.finalMessage.tool_calls[k])

\* A query ended on a second response that asked for a tool call.
C7_Witness ==
  last.pc = "resolved" /\ last.finalMessage.kind = "array" /\ Len(last.calls) >= 1

\* C8: a failed chat request is fatal to the query and never retried: the
\* failing round was sent once, a first-round failure has invoked no tool and
\* sent no second round, and processQuery rejects with the error.
C8_ChatFailureFatal ==
  [][\A q \in InFlight :
       ChatFails(q) =>
         /\ last'.pc = "rejected" /\ last'.error = "ChatAPIError"
         /\ last'.sent = q.sent /\ last'.calls = q.calls
         /\ q.pc = "await1" => (Len(q.sent) = 1 /\ q.calls = <<>> /\ Len(q.messages) = 2)
         /\ q.pc = "await2" => Len(q.sent) = 2
         /\ NumInFlight' = NumInFlight - 1]_vars

\* The second chat request of a query with tool calls failed.
C8_Witness ==
  last.error = "ChatAPIError" /\ Len(last.sent) = 2 /\ Len(last.calls) >= 1

\* No shutdown has been asked for: no quit line, end of input or SIGINT.
NoShutdown == closeCalls = 0 /\ ~rlClosed

\* C9: a failed processQuery is caught in the line handler and does not end
\* the session: unless a shutdown was asked for, the process keeps running,
\* the backend transport stays open and a further line is still processed.
C9_FailureKeepsSession ==
  (last.pc = "rejected" /\ NoShutdown) =>
    /\ phase = "running"
    /\ transport = "open"
    /\ lines < MaxLines => ENABLED Line(<<"h", "i", " ">>)

\* A query has failed and the session can take another line.
C9_Witness ==
  last.pc = "rejected" /\ NoShutdown /\ lines < MaxLines

\* C10: on every shutdown path after a successful connect (quit, end of
\* input, SIGINT), cleanup() has closed the backend transport and completed
\* before the process exits.
C10_CleanupBeforeExit ==
  (phase = "exited" /\ exitCode = 0) => (transport = "closed" /\ closeCalls >= 1)

\* The process exited through a shutdown path while a query was in flight.
C10_Witness ==
  phase = "exited" /\ exitCode = 0 /\ NumInFlight >= 1 /\ last.pc = "rejected"

\* C11: cleanup() is idempotent: on a client that is not connected any more
\* (an earlier cleanup has closed the transport, as on the quit path, where
\* readline's close handler runs cleanup after the quit branch's cleanup has
\* resolved) it performs no close operation on the transport.
C11_CleanupIdempotent ==
  [][transport' = "closed" => closeCalls' = closeCalls]_vars

\* s is an initial segment of t.
IsPrefix(s, t) == Len(s) <= Len(t) /\ SubSeq(t, 1, Len(s)) = s

\* C12: the second chat request carries no tool declarations and its message
\* list is the first request's list extended by appends only: every step of
\* an execution leaves the transcript it had as a prefix of the new one, and
\* every message list sent so far is a prefix of the current transcript.
C12_AppendOnly ==
  [][ /\ \A q \in InFlight : \A n \in DOMAIN queries' \cup {last'} :
           QueryStep(q, n) => IsPrefix(q.messages, n.messages)
      /\ \A n \in DOMAIN queries' \cup {last'} :
           /\ \A k \in 1..Len(n.sent) : IsPrefix(n.sent[k].messages, n.messages)
           /\ Len(n.sent) >= 2 =>
                /\ ~n.sent[2].declaresTools
                /\ n.sent[2].tools = <<>>
                /\ IsPrefix(n.sent[1].messages, n.sent[2].messages)
                /\ Len(n.sent[1].messages) = 2 ]_vars

\* A query has resolved after a second request that carried one pair.
C12_Witness ==
  last.pc = "resolved" /\ Len(last.sent) = 2 /\ Len(last.sent[2].messages) = 4

\* C13: every query starts from a fresh transcript: the message list of its
\* first chat request is exactly the system prompt followed by one user
\* message with that query's text, whatever the queries before it returned
\* or however they failed.
C13_FreshTranscript ==
  \A q \in Executions :
    q.pc # "none" =>
      /\ Len(q.sent) >= 1
      /\ q.sent[1].messages =
           << [role |-> "system", content |-> SystemPrompt,
               tool_calls |-> <<>>, tool_call_id |-> Null],
              [role |-> "user", content |-> q.query,
               tool_calls |-> <<>>, tool_call_id |-> Null] >>
      /\ \E n \in 1..lines : \E input \in Typed(n) : q.query = trim(input)

\* The second question is in flight after the first query was aborted with a
\* pair in its transcript.
C13_Witness ==
  \E q \in InFlight :
    q.query = <<"y", "o">> /\ last.pc = "rejected" /\ Len(last.messages) > 2

\* C14: when the response that determines the answer (the first response
\* when it carries no tool_calls, else the second response) has a null or
\* absent text content, processQuery returns the empty string and does not
\* fail.
C14_NullContentEmptyString ==
  \A q \in Executions :
    /\ (q.assistantMessage.kind \in {"absent", "null"} /\ q.assistantMessage.content = Null) =>
         (q.pc = "resolved" /\ q.value = "" /\ q.error = Null)
    /\ (q.finalMessage.kind # "none" /\ q.finalMessage.content = Null) =>
         (q.pc = "resolved" /\ q.value = "" /\ q.error = Null)

\* Both cases have happened: the last query got a second response without
\* content after two dispatched calls.
C14_Witness ==
  /\ last.finalMessage.kind = "absent" /\ last.finalMessage.content = Null
  /\ Len(last.results) = 2 /\ last.value = ""

\* The names of a list of tool declarations, in order.
ToolNames(declared) == [k \in 1..Len(declared) |-> declared[k].function.name]

\* C15: the tool registry does not change after connect: no step of the
\* running session changes this.tools, and the first request of every query
\* declares exactly the tools the backend listed at connect, by name and in
\* the listed order.
C15_RegistryImmutable ==
  [][ /\ phase = "running" => tools' = tools
      /\ \A n \in DOMAIN queries' \cup {last'} :
           n.pc # "none" =>
             /\ n.sent[1].declaresTools
             /\ \E listed \in ServerToolLists :
                  /\ ToolNames(tools') = [k \in 1..Len(listed) |-> listed[k].name]
                  /\ ToolNames(n.sent[1].tools) = [k \in 1..Len(listed) |-> listed[k].name] ]_vars

\* A query has sent its first request after an earlier query went through
\* both rounds.
C15_Witness ==
  \E q \in InFlight :
    q.pc = "await1" /\ Len(q.sent[1].tools) = 2 /\ last.pc = "resolved" /\ Len(last.sent) = 2

\* C16: for every dispatched tool call the request callTool gets has the
\* call's tool name and, as arguments, the object the call's arguments text
\* denotes, with every member kept as it is (numbers stay numbers, nothing
\* added or dropped), and the tool message appended for the call holds the
\* serialised content of the result returned for that same call.
C16_DispatchFaithful ==
  \A q \in Executions : \A k \in 1..Len(q.calls) :
    /\ q.calls[k].name = Emitted(q)[k].function.name
    /\ q.calls[k].name = IF k % 2 = 1 THEN "get_forecast" ELSE "get_alerts"
    /\ q.calls[k].arguments =
         << [key |-> "latitude", type |-> "number", value |-> Latitude(k)],
            [key |-> "longitude", type |-> "number", value |-> "-122.4"],
            [key |-> "units", type |-> "string", value |-> "metric"] >>
    /\ k <= Len(q.results) =>
         /\ q.results[k] \in Answers(q.calls[k])
         /\ q.messages[2 * k + 2].tool_call_id = Emitted(q)[k].id
         /\ q.messages[2 * k + 2].content =
              << P("["), P("{"), S("type"), P(":"), S("text"), P(","),
                 S("text"), P(":"), S(Weather(k)), P("}"), P("]") >>

\* Two calls with different names, coordinates and results were dispatched
\* and answered.
C16_Witness ==
  \E q \in Executions :
    /\ Len(q.results) = 2
    /\ q.calls[1].name # q.calls[2].name
    /\ q.results[1] # q.results[2]

\* C17: every started query eventually finishes: when every remote call
\* eventually returns or fails and the process is not terminated, the
\* executions in flight all settle; none waits forever or loops without end.
C17_QueryFinishes ==
  (NumInFlight > 0) ~> (NumInFlight = 0 \/ phase = "exited")

\* A query that went the longest way (every call of a full batch dispatched,
\* then the second round) has resolved and nothing is in flight.
C17_Witness ==
  /\ last.pc = "resolved" /\ Len(last.results) = MaxCalls /\ Len(last.sent) = 2
  /\ NumInFlight = 0 /\ phase = "running"

\* C18: transcripts are not shared between queries, overlapping or not: the
\* message list of a query's second request holds one user message, with
\* that query's text, and besides the system prompt only the assistant and
\* tool messages of that query's own dispatched calls and their results.
C18_TranscriptsNotShared ==
  \A q \in Executions :
    Len(q.sent) >= 2 =>
      LET m == q.sent[2].messages
          Role(r) == { j \in 1..Len(m) : m[j].role = r }
      IN  /\ Cardinality(Role("system")) = 1
          /\ Cardinality(Role("user")) = 1
          /\ \A j \in Role("user") : m[j].content = q.query
          /\ Cardinality(Role("assistant")) = Len(q.results)
          /\ Cardinality(Role("tool")) = Len(q.results)
          /\ \A j \in Role("assistant") :
               \E k \in 1..Len(q.calls) : m[j].tool_calls = << Emitted(q)[k] >>
          /\ \A j \in Role("tool") :
               \E k \in 1..Len(q.results) :
                 /\ m[j].tool_call_id = Emitted(q)[k].id
                 /\ m[j].content = JSONStringify(q.results[k].content)

\* Two queries with different texts overlap, both have dispatched calls, and
\* one of them has sent its second request.
C18_Witness ==
  \E q1, q2 \in InFlight :
    /\ q1.query # q2.query
    /\ q1.pc = "await2" /\ Len(q1.results) >= 1
    /\ Len(q2.results) >= 1

\* C19: when the arguments of the k-th tool call of a batch do not parse, or
\* callTool fails for it, processQuery aborts there: callTool has been
\* invoked for no call after the k-th (and not for the k-th when its
\* arguments did not parse), the transcript holds exactly the k-1 completed
\* pairs, no second chat request has been sent, processQuery rejects with
\* that error, and the execution takes no further step.
C19_AbortAtFailedCall ==
  [][ LET AbortedBy(n, k, error) ==
            /\ n.pc = "rejected" /\ n.error = error
            /\ n \notin DOMAIN queries'
            /\ Len(n.calls) <= k
            /\ Len(n.results) = k - 1
            /\ Len(n.messages) = 2 + 2 * (k - 1)
            /\ \A j \in 1..(k - 1) :
                 /\ n.messages[2 * j + 1].tool_calls = << Emitted(n)[j] >>
                 /\ n.messages[2 * j + 2].tool_call_id = Emitted(n)[j].id
            /\ Len(n.sent) = 1
      IN  /\ \A q \in InFlight :
               ToolFails(q) =>
                 /\ AbortedBy(last', Len(q.calls), "ToolError")
                 /\ last'.calls = q.calls /\ last'.results = q.results
          /\ \A n \in DOMAIN queries' \cup {last'} : \A k \in 1..Len(Emitted(n)) :
               (Emitted(n)[k].function.arguments = ArgsBad /\ Len(n.results) = k - 1) =>
                 (AbortedBy(n, k, "SyntaxError") /\ Len(n.calls) = k - 1) ]_vars

\* callTool failed for the first call of a batch of two: the second call was
\* never dispatched.
C19_Witness ==
  /\ last.error = "ToolError" /\ Len(last.calls) = 1 /\ Len(Emitted(last)) = 2
  /\ last.results = <<>>

\* C20: no request is issued on the backend connection after disconnect has
\* begun: once a cleanup() has called transport.close() (on quit, on close of
\* the input or on SIGINT), no execution in flight issues a callTool.
C20_NoCallAfterDisconnect ==
  [][ \A q \in InFlight : \A n \in DOMAIN queries' :
        (QueryStep(q, n) /\ Len(n.calls) > Len(q.calls)) =>
          (transport = "open" /\ closeCalls = 0) ]_vars

====
